---- MODULE Spec2Model ----
(***************************************************************************)
(* Model of the iterator-based XML tokenizer of src/mod.ts: the Parser     *)
(* class (write / close / next), its character classifiers and the         *)
(* character-driven state machine of Parser.next.                          *)
(*                                                                         *)
(* A JavaScript string is modelled as a sequence of one-character strings, *)
(* the input queue (#buffer) as a sequence of UTF-16 code units (numbers). *)
(* write converts the first into the second (charCodeAt) and the state     *)
(* machine converts back (String.fromCharCode).                            *)
(***************************************************************************)
EXTENDS Integers, Sequences, FiniteSets, TLC

VARIABLES
    state,      \* Parser.#state : the tagged parse state
    buffer,     \* Parser.#buffer: pending code units
    closed,     \* Parser.#closed
    strict,     \* Parser.#strict
    todo,       \* caller: the text the caller has not handed over yet
    written,    \* history: every character accepted by write so far
    out,        \* history: the nodes returned by next so far, in order
    held,       \* history: next has returned done on the open instance while a
                \*          construct was partly accumulated (a chunk boundary
                \*          fell inside a construct)
    res         \* outcome of the last call on the instance

vars == <<state, buffer, closed, strict, todo, written, out, held, res>>

(***************************************************************************)
(* Characters.  CharCode is charCodeAt(0) on the characters the inputs of  *)
(* this model are made of; SOH stands for the one-character string U+0001. *)
(***************************************************************************)
CharCode ==
    [ch \in {"<"} |-> 60] @@ [ch \in {">"} |-> 62] @@ [ch \in {"="} |-> 61] @@
    [ch \in {"-"} |-> 45] @@ [ch \in {"\""} |-> 34] @@ [ch \in {"'"} |-> 39] @@
    [ch \in {"/"} |-> 47] @@ [ch \in {"\\"} |-> 92] @@ [ch \in {"?"} |-> 63] @@
    [ch \in {"!"} |-> 33] @@ [ch \in {"["} |-> 91] @@ [ch \in {"]"} |-> 93] @@
    [ch \in {" "} |-> 32] @@ [ch \in {"\n"} |-> 10] @@ [ch \in {"\r"} |-> 13] @@
    [ch \in {"SOH"} |-> 1] @@ [ch \in {"."} |-> 46] @@ [ch \in {":"} |-> 58] @@
    [ch \in {"_"} |-> 95] @@ [ch \in {"0"} |-> 48] @@ [ch \in {"1"} |-> 49] @@
    [ch \in {"8"} |-> 56] @@
    [ch \in {"A"} |-> 65] @@ [ch \in {"C"} |-> 67] @@ [ch \in {"D"} |-> 68] @@
    [ch \in {"F"} |-> 70] @@ [ch \in {"L"} |-> 76] @@ [ch \in {"M"} |-> 77] @@
    [ch \in {"T"} |-> 84] @@ [ch \in {"U"} |-> 85] @@ [ch \in {"X"} |-> 88] @@
    [ch \in {"a"} |-> 97] @@ [ch \in {"b"} |-> 98] @@ [ch \in {"c"} |-> 99] @@
    [ch \in {"d"} |-> 100] @@ [ch \in {"e"} |-> 101] @@ [ch \in {"f"} |-> 102] @@
    [ch \in {"g"} |-> 103] @@ [ch \in {"h"} |-> 104] @@ [ch \in {"i"} |-> 105] @@
    [ch \in {"l"} |-> 108] @@ [ch \in {"m"} |-> 109] @@ [ch \in {"n"} |-> 110] @@
    [ch \in {"o"} |-> 111] @@ [ch \in {"q"} |-> 113] @@ [ch \in {"r"} |-> 114] @@
    [ch \in {"s"} |-> 115] @@ [ch \in {"t"} |-> 116] @@ [ch \in {"u"} |-> 117] @@
    [ch \in {"v"} |-> 118] @@ [ch \in {"w"} |-> 119] @@ [ch \in {"x"} |-> 120] @@
    [ch \in {"y"} |-> 121]

Chars == DOMAIN CharCode

Codes == {CharCode[ch] : ch \in Chars}

\* String.fromCharCode on a code unit of the model's alphabet
CodeChar == [n \in Codes |-> CHOOSE ch \in Chars : CharCode[ch] = n]

fromCharCode(c) == CodeChar[c]

\* data.split('').map((c) => c.charCodeAt(0))
charCodes(data) == [i \in 1..Len(data) |-> CharCode[data[i]]]

\* String.prototype.toLowerCase, on one character and on a string
lowerChar(ch) ==
    IF CharCode[ch] >= 65 /\ CharCode[ch] <= 90
        THEN CodeChar[CharCode[ch] + 32]
        ELSE ch

toLowerCase(s) == [i \in 1..Len(s) |-> lowerChar(s[i])]

\* String.prototype.repeat on a one-character string
repeat(ch, n) == [i \in 1..n |-> ch]

\* String.prototype.startsWith
startsWith(s, prefix) ==
    /\ Len(prefix) <= Len(s)
    /\ SubSeq(s, 1, Len(prefix)) = prefix

(***************************************************************************)
(* enum Tokens                                                             *)
(***************************************************************************)
TagOpen == 60
TagClose == 62
Equals == 61
Dash == 45
DoubleQuote == 34
SingleQuote == 39
Slash == 47
BackSlash == 92
QuestionMark == 63
ExclamationMark == 33
LeftSquareBracket == 91
RightSquareBracket == 93

(***************************************************************************)
(* Character classifiers                                                   *)
(***************************************************************************)
isNameStartChar(char) ==
    \/ char = 58
    \/ (char >= 65 /\ char <= 90)
    \/ char = 95
    \/ (char >= 97 /\ char <= 122)
    \/ (char >= 192 /\ char <= 214)
    \/ (char >= 216 /\ char <= 246)
    \/ (char >= 248 /\ char <= 767)
    \/ (char >= 880 /\ char <= 893)
    \/ (char >= 895 /\ char <= 8191)
    \/ (char >= 8204 /\ char <= 8205)
    \/ (char >= 8304 /\ char <= 8591)
    \/ (char >= 11264 /\ char <= 12271)
    \/ (char >= 12289 /\ char <= 55295)
    \/ (char >= 63744 /\ char <= 64975)
    \/ (char >= 65008 /\ char <= 65533)
    \/ (char >= 65536 /\ char <= 983039)

isNameChar(char) ==
    \/ isNameStartChar(char)
    \/ char = 45
    \/ char = 46
    \/ (char >= 48 /\ char <= 57)
    \/ char = 183
    \/ (char >= 768 /\ char <= 879)
    \/ (char >= 8255 /\ char <= 8256)

isChar(char) ==
    \/ char = 9
    \/ char = 10
    \/ char = 13
    \/ (char >= 32 /\ char <= 55295)
    \/ (char >= 57344 /\ char <= 65533)
    \/ (char >= 65536 /\ char <= 1114111)

isWhiteSpace(char) ==
    char = 32 \/ char = 9 \/ char = 13 \/ char = 10

isQuotationMark(char) ==
    char = DoubleQuote \/ char = SingleQuote

\* escapeChar either returns a one-character string or throws
escapeCharThrows(char) == char \notin {92, 110, 114}

escapeChar(char) ==
    CASE char = 92 -> "\\"
      [] char = 110 -> "\n"
      [] char = 114 -> "\r"

(***************************************************************************)
(* Attribute mappings ({ [key: string]: string }) are functions from names *)
(* to values.                                                              *)
(***************************************************************************)
NoAttributes == [k \in {} |-> <<>>]

\* { ...attributes, [attributeName]: attributeValue }
withAttribute(attributes, attributeName, attributeValue) ==
    [k \in (DOMAIN attributes) \cup {attributeName} |->
        IF k = attributeName THEN attributeValue ELSE attributes[k]]

\* quotationMark?: number, when it is undefined
NoQuotationMark == 0

(***************************************************************************)
(* Nodes (Parser.Node)                                                     *)
(***************************************************************************)
TextNode(text) == [type |-> "text", text |-> text]

XMLDeclNode(attributes) == [type |-> "xmldecl", xmldecl |-> attributes]

OpenTagNode(name, attributes, empty) ==
    [type |-> "opentag",
     opentag |-> [name |-> name, attributes |-> attributes, empty |-> empty]]

CloseTagNode(name) == [type |-> "closetag", closetag |-> name]

CommentNode(text) == [type |-> "comment", comment |-> text]

ProcessingInstructionNode(name, text) ==
    [type |-> "processinginstruction",
     processinginstruction |-> [name |-> name, text |-> text]]

CDataNode(text) == [type |-> "cdata", cdata |-> text]

(***************************************************************************)
(* Parse states (namespace ParseState)                                     *)
(***************************************************************************)
StateTypes ==
    {"Text", "TagName", "TagEmpty", "Tag", "TagAttributeName", "TagAttribute",
     "TagAttributeValue", "ClosingTagName", "ProcessingInstructionName",
     "ProcessingInstruction", "XMLDecl", "XMLDeclAttributeName",
     "XMLDeclAttribute", "XMLDeclAttributeValue", "XMLDeclEnd", "CommentStart",
     "Comment", "CDataStart", "CData"}

\* { state: ParseState.Type.Text, text: '' }
InitialText == [state |-> "Text", text |-> <<>>]

(***************************************************************************)
(* What one iteration of the loop of next() does with one code unit:       *)
(*   Continue(st)   the state becomes st and the loop goes on (break)      *)
(*   Return(st, n)  the state becomes st and next returns the node n       *)
(*   Throw(st, m)   next throws Error(m ...), leaving the state st         *)
(***************************************************************************)
Continue(st) == [kind |-> "continue", st |-> st]

Return(st, node) == [kind |-> "node", st |-> st, node |-> node]

Throw(st, msg) == [kind |-> "error", st |-> st, msg |-> msg]

(***************************************************************************)
(* The cases of the switch of next(), one operator per parse state.  st is *)
(* #state, c the code unit just shifted from #buffer.                      *)
(***************************************************************************)
\* onText with the test for an empty accumulator left out
onTextFlushesEmpty(st, c) ==
    IF c = TagOpen
        THEN Return([state |-> "TagName", tagName |-> <<>>], TextNode(st.text))
        ELSE Continue([st EXCEPT !.text = Append(@, fromCharCode(c))])

\* onText going back to Text after it has flushed the text at a `<`
onTextStaysText(st, c) ==
    IF c = TagOpen
        THEN IF Len(st.text) > 0
                THEN Return(InitialText, TextNode(st.text))
                ELSE Continue([state |-> "TagName", tagName |-> <<>>])
        ELSE Continue([st EXCEPT !.text = Append(@, fromCharCode(c))])

onText(st, c) ==
    IF c = TagOpen
        THEN IF Len(st.text) > 0
                THEN Return([state |-> "TagName", tagName |-> <<>>], TextNode(st.text))
                ELSE Continue([state |-> "TagName", tagName |-> <<>>])
        ELSE Continue([st EXCEPT !.text = Append(@, fromCharCode(c))])

\* onTagName appending to the name a character it has no branch for
onTagNameKeepsAnyChar(st, c) ==
    IF Len(st.tagName) > 0
        THEN CASE isNameChar(c) ->
                    Continue([st EXCEPT !.tagName = Append(@, fromCharCode(c))])
               [] ~isNameChar(c) /\ isWhiteSpace(c) ->
                    Continue([state |-> "Tag", tagName |-> st.tagName,
                              attributes |-> NoAttributes])
               [] ~isNameChar(c) /\ ~isWhiteSpace(c) /\ c = TagClose ->
                    Return(InitialText, OpenTagNode(st.tagName, NoAttributes, FALSE))
               [] ~isNameChar(c) /\ ~isWhiteSpace(c) /\ c = Slash ->
                    Continue([state |-> "TagEmpty", tagName |-> st.tagName,
                              attributes |-> NoAttributes])
               [] OTHER ->
                    Continue([st EXCEPT !.tagName = Append(@, fromCharCode(c))])
        ELSE CASE isNameStartChar(c) ->
                    Continue([st EXCEPT !.tagName = Append(@, fromCharCode(c))])
               [] c = Slash ->
                    Continue([state |-> "ClosingTagName", tagName |-> <<>>])
               [] c = QuestionMark ->
                    Continue([state |-> "ProcessingInstructionName", name |-> <<>>])
               [] c = ExclamationMark ->
                    Continue([state |-> "CommentStart", dashes |-> 0])
               [] OTHER -> Throw(st, "invalid tag name starting character")

\* onTagName shifting a character that cannot start a construct after `<`
onTagNameSkipsBadStart(st, c) ==
    IF Len(st.tagName) > 0
        THEN CASE isNameChar(c) ->
                    Continue([st EXCEPT !.tagName = Append(@, fromCharCode(c))])
               [] ~isNameChar(c) /\ isWhiteSpace(c) ->
                    Continue([state |-> "Tag", tagName |-> st.tagName,
                              attributes |-> NoAttributes])
               [] ~isNameChar(c) /\ ~isWhiteSpace(c) /\ c = TagClose ->
                    Return(InitialText, OpenTagNode(st.tagName, NoAttributes, FALSE))
               [] ~isNameChar(c) /\ ~isWhiteSpace(c) /\ c = Slash ->
                    Continue([state |-> "TagEmpty", tagName |-> st.tagName,
                              attributes |-> NoAttributes])
               [] OTHER -> Continue(st)
        ELSE CASE isNameStartChar(c) ->
                    Continue([st EXCEPT !.tagName = Append(@, fromCharCode(c))])
               [] c = Slash ->
                    Continue([state |-> "ClosingTagName", tagName |-> <<>>])
               [] c = QuestionMark ->
                    Continue([state |-> "ProcessingInstructionName", name |-> <<>>])
               [] c = ExclamationMark ->
                    Continue([state |-> "CommentStart", dashes |-> 0])
               [] OTHER -> Continue(st)

onTagName(st, c) ==
    IF Len(st.tagName) > 0
        THEN CASE isNameChar(c) ->
                    Continue([st EXCEPT !.tagName = Append(@, fromCharCode(c))])
               [] ~isNameChar(c) /\ isWhiteSpace(c) ->
                    Continue([state |-> "Tag", tagName |-> st.tagName,
                              attributes |-> NoAttributes])
               [] ~isNameChar(c) /\ ~isWhiteSpace(c) /\ c = TagClose ->
                    Return(InitialText, OpenTagNode(st.tagName, NoAttributes, FALSE))
               [] ~isNameChar(c) /\ ~isWhiteSpace(c) /\ c = Slash ->
                    Continue([state |-> "TagEmpty", tagName |-> st.tagName,
                              attributes |-> NoAttributes])
               [] OTHER -> Continue(st)
        ELSE CASE isNameStartChar(c) ->
                    Continue([st EXCEPT !.tagName = Append(@, fromCharCode(c))])
               [] c = Slash ->
                    Continue([state |-> "ClosingTagName", tagName |-> <<>>])
               [] c = QuestionMark ->
                    Continue([state |-> "ProcessingInstructionName", name |-> <<>>])
               [] c = ExclamationMark ->
                    Continue([state |-> "CommentStart", dashes |-> 0])
               [] OTHER -> Throw(st, "invalid tag name starting character")

onTag(st, c) ==
    CASE c = TagClose ->
            Return(InitialText, OpenTagNode(st.tagName, st.attributes, FALSE))
      [] c # TagClose /\ isWhiteSpace(c) -> Continue(st)
      [] c # TagClose /\ ~isWhiteSpace(c) /\ isNameStartChar(c) ->
            Continue([state |-> "TagAttributeName", tagName |-> st.tagName,
                      attributes |-> st.attributes,
                      attributeName |-> <<fromCharCode(c)>>])
      [] c # TagClose /\ ~isWhiteSpace(c) /\ ~isNameStartChar(c) /\ c = Slash ->
            Continue([state |-> "TagEmpty", tagName |-> st.tagName,
                      attributes |-> NoAttributes])
      [] OTHER -> Throw(st, "invalid tag attribute name character")

onTagEmpty(st, c) ==
    IF c = TagClose
        THEN Return(InitialText, OpenTagNode(st.tagName, st.attributes, TRUE))
        ELSE Continue(st)

\* the TagAttributeValue state an attribute value starts in (quotationMark unset)
tagAttributeValueStart(st) ==
    [state |-> "TagAttributeValue", tagName |-> st.tagName,
     attributes |-> st.attributes, attributeName |-> st.attributeName,
     attributeValue |-> <<>>, escaped |-> FALSE,
     quotationMark |-> NoQuotationMark]

\* onTagAttribute throwing at a character it has no branch for
onTagAttributeThrows(st, c) ==
    CASE isWhiteSpace(c) -> Continue(st)
      [] ~isWhiteSpace(c) /\ c = Equals -> Continue(tagAttributeValueStart(st))
      [] OTHER -> Throw(st, "invalid tag attribute name character")

onTagAttribute(st, c) ==
    CASE isWhiteSpace(c) -> Continue(st)
      [] ~isWhiteSpace(c) /\ c = Equals -> Continue(tagAttributeValueStart(st))
      [] OTHER -> Continue(st)

\* onTagAttributeName shifting a character it has no branch for
onTagAttributeNameSkips(st, c) ==
    CASE isWhiteSpace(c) ->
            Continue([state |-> "TagAttribute", tagName |-> st.tagName,
                      attributes |-> st.attributes,
                      attributeName |-> st.attributeName])
      [] ~isWhiteSpace(c) /\ c = Equals -> Continue(tagAttributeValueStart(st))
      [] ~isWhiteSpace(c) /\ c # Equals /\ isNameChar(c) ->
            Continue([st EXCEPT !.attributeName = Append(@, fromCharCode(c))])
      [] OTHER -> Continue(st)

onTagAttributeName(st, c) ==
    CASE isWhiteSpace(c) ->
            Continue([state |-> "TagAttribute", tagName |-> st.tagName,
                      attributes |-> st.attributes,
                      attributeName |-> st.attributeName])
      [] ~isWhiteSpace(c) /\ c = Equals -> Continue(tagAttributeValueStart(st))
      [] ~isWhiteSpace(c) /\ c # Equals /\ isNameChar(c) ->
            Continue([st EXCEPT !.attributeName = Append(@, fromCharCode(c))])
      [] OTHER -> Throw(st, "invalid tag attribute name character")

\* opensQuotedValue with either quotation mark accepted in strict mode too
opensQuotedValueAnyQuote(c, isStrict) == isQuotationMark(c)

\* this.#strict ? c === Tokens.SingleQuote : isQuotationMark(c)
opensQuotedValue(c, isStrict) ==
    IF isStrict THEN c = SingleQuote ELSE isQuotationMark(c)

\* this.#state.quotationMark ? c === this.#state.quotationMark : isWhiteSpace(c)
endsValue(st, c) ==
    IF st.quotationMark # NoQuotationMark
        THEN c = st.quotationMark
        ELSE isWhiteSpace(c)

\* onTagAttributeValue arming the escape in an unquoted value too
onTagAttributeValueEscapesUnquoted(st, c, isStrict) ==
    IF Len(st.attributeValue) > 0 \/ st.quotationMark # NoQuotationMark
        THEN CASE st.escaped ->
                    IF escapeCharThrows(c)
                        THEN Throw(st, "unexpected escape character")
                        ELSE Continue([st EXCEPT
                                !.attributeValue = Append(@, escapeChar(c)),
                                !.escaped = FALSE])
               [] ~st.escaped /\ c = BackSlash ->
                    Continue([st EXCEPT !.escaped = TRUE])
               [] ~st.escaped /\ c # BackSlash /\ endsValue(st, c) ->
                    Continue([state |-> "Tag", tagName |-> st.tagName,
                              attributes |-> withAttribute(st.attributes,
                                    st.attributeName, st.attributeValue)])
               [] OTHER ->
                    Continue([st EXCEPT !.attributeValue = Append(@, fromCharCode(c))])
        ELSE IF isWhiteSpace(c)
                THEN Continue(st)
                ELSE CASE opensQuotedValue(c, isStrict) ->
                            Continue([st EXCEPT !.quotationMark = c])
                       [] ~opensQuotedValue(c, isStrict) /\ isStrict ->
                            Throw(st, "invalid attribute value starting character")
                       [] OTHER ->
                            Continue([st EXCEPT
                                !.attributeValue = Append(@, fromCharCode(c))])

onTagAttributeValue(st, c, isStrict) ==
    IF Len(st.attributeValue) > 0 \/ st.quotationMark # NoQuotationMark
        THEN CASE st.escaped ->
                    IF escapeCharThrows(c)
                        THEN Throw(st, "unexpected escape character")
                        ELSE Continue([st EXCEPT
                                !.attributeValue = Append(@, escapeChar(c)),
                                !.escaped = FALSE])
               [] ~st.escaped /\ c = BackSlash /\ st.quotationMark # NoQuotationMark ->
                    Continue([st EXCEPT !.escaped = TRUE])
               [] /\ ~st.escaped
                  /\ ~(c = BackSlash /\ st.quotationMark # NoQuotationMark)
                  /\ endsValue(st, c) ->
                    Continue([state |-> "Tag", tagName |-> st.tagName,
                              attributes |-> withAttribute(st.attributes,
                                    st.attributeName, st.attributeValue)])
               [] OTHER ->
                    Continue([st EXCEPT !.attributeValue = Append(@, fromCharCode(c))])
        ELSE IF isWhiteSpace(c)
                THEN Continue(st)
                ELSE CASE opensQuotedValue(c, isStrict) ->
                            Continue([st EXCEPT !.quotationMark = c])
                       [] ~opensQuotedValue(c, isStrict) /\ isStrict ->
                            Throw(st, "invalid attribute value starting character")
                       [] OTHER ->
                            Continue([st EXCEPT
                                !.attributeValue = Append(@, fromCharCode(c))])

onClosingTagName(st, c) ==
    IF Len(st.tagName) > 0
        THEN CASE isNameChar(c) ->
                    Continue([st EXCEPT !.tagName = Append(@, fromCharCode(c))])
               [] ~isNameChar(c) /\ isWhiteSpace(c) -> Continue(st)
               [] ~isNameChar(c) /\ ~isWhiteSpace(c) /\ c = TagClose ->
                    Return(InitialText, CloseTagNode(st.tagName))
               [] OTHER -> Continue(st)
        ELSE IF isNameStartChar(c)
                THEN Continue([st EXCEPT !.tagName = Append(@, fromCharCode(c))])
                ELSE Throw(st, "invalid tag name starting character")

\* onProcessingInstructionName ending the target at `?` as well
onProcessingInstructionNameEndsAtMark(st, c) ==
    CASE c = QuestionMark ->
            Continue([state |-> "ProcessingInstruction", name |-> st.name,
                      text |-> <<>>, ending |-> TRUE])
      [] c # QuestionMark /\ isWhiteSpace(c) ->
            IF toLowerCase(st.name) = <<"x", "m", "l">>
                THEN Continue([state |-> "XMLDecl", attributes |-> NoAttributes])
                ELSE Continue([state |-> "ProcessingInstruction", name |-> st.name,
                               text |-> <<>>, ending |-> FALSE])
      [] OTHER -> Continue([st EXCEPT !.name = Append(@, fromCharCode(c))])

onProcessingInstructionName(st, c) ==
    IF isWhiteSpace(c)
        THEN IF toLowerCase(st.name) = <<"x", "m", "l">>
                THEN Continue([state |-> "XMLDecl", attributes |-> NoAttributes])
                ELSE Continue([state |-> "ProcessingInstruction", name |-> st.name,
                               text |-> <<>>, ending |-> FALSE])
        ELSE Continue([st EXCEPT !.name = Append(@, fromCharCode(c))])

\* onProcessingInstruction forgetting a pending `?` when another character
\* follows it
onProcessingInstructionDropsMark(st, c, isStrict) ==
    CASE c = QuestionMark ->
            IF st.ending
                THEN Continue([st EXCEPT !.text = Append(@, "?")])
                ELSE Continue([st EXCEPT !.ending = TRUE])
      [] c # QuestionMark /\ st.ending /\ c = TagClose ->
            Return(InitialText, ProcessingInstructionNode(st.name, st.text))
      [] c # QuestionMark /\ ~(st.ending /\ c = TagClose) /\ isStrict /\ ~isChar(c) ->
            Throw(st, "invalid processing instruction character")
      [] OTHER ->
            Continue([st EXCEPT
                !.text = Append(@, fromCharCode(c)),
                !.ending = FALSE])

onProcessingInstruction(st, c, isStrict) ==
    CASE c = QuestionMark ->
            IF st.ending
                THEN Continue([st EXCEPT !.text = Append(@, "?")])
                ELSE Continue([st EXCEPT !.ending = TRUE])
      [] c # QuestionMark /\ st.ending /\ c = TagClose ->
            Return(InitialText, ProcessingInstructionNode(st.name, st.text))
      [] c # QuestionMark /\ ~(st.ending /\ c = TagClose) /\ isStrict /\ ~isChar(c) ->
            Throw(st, "invalid processing instruction character")
      [] OTHER ->
            Continue([st EXCEPT
                !.text = Append(IF st.ending THEN Append(@, "?") ELSE @,
                                fromCharCode(c)),
                !.ending = FALSE])

onXMLDecl(st, c) ==
    CASE isWhiteSpace(c) -> Continue(st)
      [] ~isWhiteSpace(c) /\ c = QuestionMark ->
            Continue([state |-> "XMLDeclEnd", attributes |-> st.attributes])
      [] ~isWhiteSpace(c) /\ c # QuestionMark /\ isNameStartChar(c) ->
            Continue([state |-> "XMLDeclAttributeName", attributes |-> st.attributes,
                      attributeName |-> <<fromCharCode(c)>>])
      [] OTHER -> Throw(st, "invalid xml decl character")

\* the XMLDeclAttributeValue state an attribute value starts in
xmlDeclAttributeValueStart(st) ==
    [state |-> "XMLDeclAttributeValue",
     attributes |-> st.attributes, attributeName |-> st.attributeName,
     attributeValue |-> <<>>, escaped |-> FALSE,
     quotationMark |-> NoQuotationMark]

onXMLDeclAttributeName(st, c) ==
    CASE isWhiteSpace(c) ->
            Continue([state |-> "XMLDeclAttribute", attributes |-> st.attributes,
                      attributeName |-> st.attributeName,
                      attributeValue |-> <<>>])
      [] ~isWhiteSpace(c) /\ c = Equals -> Continue(xmlDeclAttributeValueStart(st))
      [] ~isWhiteSpace(c) /\ c # Equals /\ isNameChar(c) ->
            Continue([st EXCEPT !.attributeName = Append(@, fromCharCode(c))])
      [] OTHER -> Throw(st, "invalid xml decl attribute name character")

onXMLDeclAttribute(st, c) ==
    CASE isWhiteSpace(c) -> Continue(st)
      [] ~isWhiteSpace(c) /\ c = Equals -> Continue(xmlDeclAttributeValueStart(st))
      [] OTHER -> Continue(st)

onXMLDeclAttributeValue(st, c, isStrict) ==
    IF Len(st.attributeValue) > 0 \/ st.quotationMark # NoQuotationMark
        THEN CASE st.escaped ->
                    IF escapeCharThrows(c)
                        THEN Throw(st, "unexpected escape character")
                        ELSE Continue([st EXCEPT
                                !.attributeValue = Append(@, escapeChar(c)),
                                !.escaped = FALSE])
               [] ~st.escaped /\ c = BackSlash /\ st.quotationMark # NoQuotationMark ->
                    Continue([st EXCEPT !.escaped = TRUE])
               [] /\ ~st.escaped
                  /\ ~(c = BackSlash /\ st.quotationMark # NoQuotationMark)
                  /\ endsValue(st, c) ->
                    Continue([state |-> "XMLDecl",
                              attributes |-> withAttribute(st.attributes,
                                    st.attributeName, st.attributeValue)])
               [] OTHER ->
                    Continue([st EXCEPT !.attributeValue = Append(@, fromCharCode(c))])
        ELSE IF isWhiteSpace(c)
                THEN Continue(st)
                ELSE CASE opensQuotedValue(c, isStrict) ->
                            Continue([st EXCEPT !.quotationMark = c])
                       [] ~opensQuotedValue(c, isStrict) /\ isStrict ->
                            Throw(st, "invalid attribute value starting character")
                       [] OTHER ->
                            Continue([st EXCEPT
                                !.attributeValue = Append(@, fromCharCode(c))])

onXMLDeclEnd(st, c) ==
    IF c = TagClose
        THEN Return(InitialText, XMLDeclNode(st.attributes))
        ELSE Continue(st)

\* onCommentStart taking a `[` after a dash too
onCommentStartBracketAnywhere(st, c) ==
    CASE c = LeftSquareBracket ->
            Continue([state |-> "CDataStart", prologue |-> <<>>])
      [] c # LeftSquareBracket /\ c = Dash ->
            IF st.dashes + 1 >= 2
                THEN Continue([state |-> "Comment", text |-> <<>>, dashes |-> 0])
                ELSE Continue([st EXCEPT !.dashes = @ + 1])
      [] OTHER -> Throw(st, "invalid comment starting character")

onCommentStart(st, c) ==
    CASE st.dashes = 0 /\ c = LeftSquareBracket ->
            Continue([state |-> "CDataStart", prologue |-> <<>>])
      [] ~(st.dashes = 0 /\ c = LeftSquareBracket) /\ c = Dash ->
            IF st.dashes + 1 >= 2
                THEN Continue([state |-> "Comment", text |-> <<>>, dashes |-> 0])
                ELSE Continue([st EXCEPT !.dashes = @ + 1])
      [] OTHER -> Throw(st, "invalid comment starting character")

\* onComment without the two tests strict mode makes on dashes
onCommentLenient(st, c, isStrict) ==
    CASE c = Dash -> Continue([st EXCEPT !.dashes = @ + 1])
      [] c # Dash /\ c = TagClose /\ st.dashes >= 2 ->
            Return(InitialText, CommentNode(st.text \o repeat("-", st.dashes - 2)))
      [] c # Dash /\ ~(c = TagClose /\ st.dashes >= 2) /\ isStrict /\ ~isChar(c) ->
            Throw(st, "invalid comment character")
      [] OTHER ->
            Continue([st EXCEPT
                !.text = Append(@ \o repeat("-", st.dashes), fromCharCode(c)),
                !.dashes = 0])

\* onComment dropping the pending dashes when another character follows them
onCommentDropsDashes(st, c, isStrict) ==
    CASE c = Dash ->
            IF isStrict /\ Len(st.text) = 0
                THEN Throw(st, "invalid comment starting character")
                ELSE Continue([st EXCEPT !.dashes = @ + 1])
      [] c # Dash /\ c = TagClose /\ st.dashes >= 2 ->
            IF isStrict /\ st.dashes > 2
                THEN Throw(st, "malformed comment ending sequence")
                ELSE Return(InitialText,
                            CommentNode(st.text \o repeat("-", st.dashes - 2)))
      [] c # Dash /\ ~(c = TagClose /\ st.dashes >= 2) /\ isStrict /\ ~isChar(c) ->
            Throw(st, "invalid comment character")
      [] OTHER ->
            Continue([st EXCEPT
                !.text = Append(@, fromCharCode(c)),
                !.dashes = 0])

\* (the branch `this.#strict && c === Tokens.Dash` of line 776 is never taken:
\* c === Tokens.Dash is decided by the first branch)
onComment(st, c, isStrict) ==
    CASE c = Dash ->
            IF isStrict /\ Len(st.text) = 0
                THEN Throw(st, "invalid comment starting character")
                ELSE Continue([st EXCEPT !.dashes = @ + 1])
      [] c # Dash /\ c = TagClose /\ st.dashes >= 2 ->
            IF isStrict /\ st.dashes > 2
                THEN Throw(st, "malformed comment ending sequence")
                ELSE Return(InitialText,
                            CommentNode(st.text \o repeat("-", st.dashes - 2)))
      [] c # Dash /\ ~(c = TagClose /\ st.dashes >= 2) /\ isStrict /\ ~isChar(c) ->
            Throw(st, "invalid comment character")
      [] OTHER ->
            Continue([st EXCEPT
                !.text = Append(@ \o repeat("-", st.dashes), fromCharCode(c)),
                !.dashes = 0])

CDataPrologue == <<"C", "D", "A", "T", "A", "[">>

onCDataStart(st, c) ==
    LET appended == [st EXCEPT !.prologue = Append(@, fromCharCode(c))]
    IN  CASE appended.prologue = CDataPrologue ->
                Continue([state |-> "CData", text |-> <<>>, brackets |-> 0])
          [] appended.prologue # CDataPrologue
             /\ ~startsWith(CDataPrologue, appended.prologue) ->
                Throw(appended, "invalid cdata starting sequence")
          [] OTHER -> Continue(appended)

\* onCData without the test strict mode makes on the characters of the body
onCDataAnyChar(st, c, isStrict) ==
    CASE c = RightSquareBracket ->
            Continue([st EXCEPT !.brackets = @ + 1])
      [] c # RightSquareBracket /\ st.brackets >= 2 /\ c = TagClose ->
            Return(InitialText, CDataNode(st.text \o repeat("]", st.brackets - 2)))
      [] OTHER ->
            Continue([st EXCEPT
                !.text = Append(@ \o repeat("]", st.brackets), fromCharCode(c)),
                !.brackets = 0])

\* onCData ending the section at a `>` that follows one `]`
onCDataEndsAfterOneBracket(st, c, isStrict) ==
    CASE c = RightSquareBracket ->
            Continue([st EXCEPT !.brackets = @ + 1])
      [] c # RightSquareBracket /\ st.brackets >= 1 /\ c = TagClose ->
            Return(InitialText, CDataNode(st.text \o repeat("]", st.brackets - 2)))
      [] /\ c # RightSquareBracket
         /\ ~(st.brackets >= 1 /\ c = TagClose)
         /\ isStrict /\ ~isChar(c) ->
            Throw(st, "invalid cdata character")
      [] OTHER ->
            Continue([st EXCEPT
                !.text = Append(@ \o repeat("]", st.brackets), fromCharCode(c)),
                !.brackets = 0])

onCData(st, c, isStrict) ==
    CASE c = RightSquareBracket ->
            Continue([st EXCEPT !.brackets = @ + 1])
      [] c # RightSquareBracket /\ st.brackets >= 2 /\ c = TagClose ->
            Return(InitialText, CDataNode(st.text \o repeat("]", st.brackets - 2)))
      [] /\ c # RightSquareBracket
         /\ ~(st.brackets >= 2 /\ c = TagClose)
         /\ isStrict /\ ~isChar(c) ->
            Throw(st, "invalid cdata character")
      [] OTHER ->
            Continue([st EXCEPT
                !.text = Append(@ \o repeat("]", st.brackets), fromCharCode(c)),
                !.brackets = 0])

\* switch (this.#state.state): one code unit against the current state
step(st, c, isStrict) ==
    CASE st.state = "Text" -> onText(st, c)
      [] st.state = "TagName" -> onTagName(st, c)
      [] st.state = "Tag" -> onTag(st, c)
      [] st.state = "TagEmpty" -> onTagEmpty(st, c)
      [] st.state = "TagAttribute" -> onTagAttribute(st, c)
      [] st.state = "TagAttributeName" -> onTagAttributeName(st, c)
      [] st.state = "TagAttributeValue" -> onTagAttributeValue(st, c, isStrict)
      [] st.state = "ClosingTagName" -> onClosingTagName(st, c)
      [] st.state = "ProcessingInstructionName" -> onProcessingInstructionName(st, c)
      [] st.state = "ProcessingInstruction" -> onProcessingInstruction(st, c, isStrict)
      [] st.state = "XMLDecl" -> onXMLDecl(st, c)
      [] st.state = "XMLDeclAttributeName" -> onXMLDeclAttributeName(st, c)
      [] st.state = "XMLDeclAttribute" -> onXMLDeclAttribute(st, c)
      [] st.state = "XMLDeclAttributeValue" -> onXMLDeclAttributeValue(st, c, isStrict)
      [] st.state = "XMLDeclEnd" -> onXMLDeclEnd(st, c)
      [] st.state = "CommentStart" -> onCommentStart(st, c)
      [] st.state = "Comment" -> onComment(st, c, isStrict)
      [] st.state = "CDataStart" -> onCDataStart(st, c)
      [] st.state = "CData" -> onCData(st, c, isStrict)

(***************************************************************************)
(* Parser.next                                                             *)
(***************************************************************************)
Done(st) == [kind |-> "done", st |-> st]

\* runLoop emptying the queue when a case returns or throws
RECURSIVE runLoopDropsRest(_, _, _)
runLoopDropsRest(st, buf, isStrict) ==
    IF buf = <<>>
        THEN [kind |-> "empty", st |-> st, buffer |-> buf]
        ELSE LET r == step(st, Head(buf), isStrict)
             IN  IF r.kind = "continue"
                    THEN runLoopDropsRest(r.st, Tail(buf), isStrict)
                    ELSE r @@ [buffer |-> <<>>]

\* the while loop: shift code units until a case returns or throws, or the
\* queue is empty
RECURSIVE runLoop(_, _, _)
runLoop(st, buf, isStrict) ==
    IF buf = <<>>
        THEN [kind |-> "empty", st |-> st, buffer |-> buf]
        ELSE LET r == step(st, Head(buf), isStrict)
             IN  IF r.kind = "continue"
                    THEN runLoop(r.st, Tail(buf), isStrict)
                    ELSE r @@ [buffer |-> Tail(buf)]

\* endOfQueue flushing the accumulated text whether or not the instance is closed
endOfQueueFlushesOpen(st, isClosed) ==
    IF st.state = "Text"
        THEN IF Len(st.text) > 0
                THEN Return(InitialText, TextNode(st.text))
                ELSE Done(st)
        ELSE IF isClosed
                THEN Throw(st, "unexpected end of stream")
                ELSE Done(st)

\* endOfQueue answering done when the stream ends inside a construct
endOfQueueSilent(st, isClosed) ==
    IF isClosed /\ st.state = "Text" /\ Len(st.text) > 0
        THEN Return(InitialText, TextNode(st.text))
        ELSE Done(st)

\* endOfQueue returning the trailing text without resetting the accumulator
endOfQueueNoReset(st, isClosed) ==
    IF isClosed
        THEN IF st.state = "Text"
                THEN IF Len(st.text) > 0
                        THEN Return(st, TextNode(st.text))
                        ELSE Done(st)
                ELSE Throw(st, "unexpected end of stream")
        ELSE Done(st)

\* after the loop: the queue is empty
endOfQueue(st, isClosed) ==
    IF isClosed
        THEN IF st.state = "Text"
                THEN IF Len(st.text) > 0
                        THEN Return(InitialText, TextNode(st.text))
                        ELSE Done(st)
                ELSE Throw(st, "unexpected end of stream")
        ELSE Done(st)

next(st, buf, isClosed, isStrict) ==
    LET r == runLoop(st, buf, isStrict)
    IN  IF r.kind = "empty"
            THEN endOfQueue(r.st, isClosed) @@ [buffer |-> r.buffer]
            ELSE r

\* what the caller of next sees: IteratorResult or the exception
nextResult(r) ==
    CASE r.kind = "node" -> [op |-> "next", kind |-> "node", node |-> r.node]
      [] r.kind = "done" -> [op |-> "next", kind |-> "done"]
      [] r.kind = "error" -> [op |-> "next", kind |-> "error", msg |-> r.msg]

(***************************************************************************)
(* Parser.write and Parser.close                                           *)
(***************************************************************************)
\* write without the test of #closed
writeIgnoresClosed(buf, isClosed, data) ==
    [kind |-> "ok", buffer |-> buf \o charCodes(data)]

write(buf, isClosed, data) ==
    IF isClosed
        THEN [kind |-> "error", msg |-> "parse is closed", buffer |-> buf]
        ELSE [kind |-> "ok", buffer |-> buf \o charCodes(data)]

close(buf, isClosed, data) ==
    IF Len(data) > 0
        THEN LET w == write(buf, isClosed, data)
             IN  IF w.kind = "error"
                    THEN w @@ [closed |-> isClosed]
                    ELSE [kind |-> "ok", buffer |-> w.buffer, closed |-> TRUE]
        ELSE [kind |-> "ok", buffer |-> buf, closed |-> TRUE]

callResult(op, r) ==
    IF r.kind = "error"
        THEN [op |-> op, kind |-> "error", msg |-> r.msg]
        ELSE [op |-> op, kind |-> "ok"]

(***************************************************************************)
(* The texts the caller feeds to the instance.                             *)
(***************************************************************************)
\* README, Advanced Usage
DocReadme ==
    <<"<", "h", "e", "l", "l", "o", ">", "w", "o", "r", "l", "d", "<", "/",
      "h", "e", "l", "l", "o", ">", "a", "s", "d", "f">>

\* an unquoted attribute value
DocUnquoted ==
    <<"<", "a", " ", "b", "=", "u", "n", "q", "u", "o", "t", "e", "d", ">">>

\* a double-quoted attribute value
DocDoubleQuoted ==
    <<"<", "a", " ", "b", "=", "\"", "c", "\"", ">">>

\* a single-quoted attribute value
DocSingleQuoted ==
    <<"<", "a", " ", "b", "=", "'", "c", "'", ">">>

\* U+0001 (not an XML Char) in a quoted attribute value
DocControlChar ==
    <<"<", "a", " ", "b", "=", "'", "SOH", "'", ">">>

\* unquoted values ended by whitespace
DocUnquotedSpace ==
    <<"<", "a", " ", "b", "=", "c", " ", "d", " ", "=", " ", "e", " ", "/",
      ">">>

\* backslash escapes in quoted values
DocEscapes ==
    <<"<", "a", " ", "b", "=", "\"", "\\", "n", "\\", "\\", "\"", " ", "c",
      "=", "'", "\\", "q", "'", ">">>

\* spec section 8, XML declaration scenario
DocXmlDecl ==
    <<"<", "?", "x", "m", "l", " ", "v", "e", "r", "s", "i", "o", "n", "=",
      "\"", "1", ".", "0", "\"", " ", "e", "n", "c", "o", "d", "i", "n", "g",
      "=", "\"", "U", "T", "F", "-", "8", "\"", "?", ">", "<", "a", "/", ">">>

\* a declaration with a single-quoted value
DocXmlDeclSingle ==
    <<"<", "?", "X", "M", "L", " ", "v", "=", "'", "1", "'", " ", "?", ">",
      " ">>

\* a declaration with an unquoted value
DocXmlDeclUnquoted ==
    <<"<", "?", "x", "m", "l", " ", "v", " ", "=", " ", "1", " ", "?", ">">>

\* comments
DocComments ==
    <<"<", "!", "-", "-", "h", "e", "l", "l", "o", "-", "-", ">", "<", "!",
      "-", "-", "a", "-", "-", "b", "-", "-", "-", ">">>

\* spec section 8, CDATA scenario
DocCData ==
    <<"<", "r", "o", "o", "t", ">", "h", "e", "l", "l", "o", "<", "!", "[",
      "C", "D", "A", "T", "A", "[", " ", "w", "o", "r", "l", "d", " ", "]",
      "]", ">", "<", "/", "r", "o", "o", "t", ">">>

\* a processing instruction
DocInstruction ==
    <<"<", "?", "f", "o", "o", " ", "a", "?", "b", "?", "?", ">", "x">>

\* a broken CDATA prologue
DocBadCData ==
    <<"<", "!", "[", "C", "D", "X">>

\* a character that cannot start a name after `<` and after `</`
DocBadStarts ==
    <<"<", "=", "a", ">", "<", "/", "=", "b", ">">>

\* an attribute name ended by `>`
DocBareAttribute ==
    <<"<", "a", " ", "b", ">">>

\* characters between an attribute name and its `=`, and between `/` and `>`
DocIgnoredChars ==
    <<"<", "a", " ", "b", " ", ">", "x", "=", " ", "'", "c", "'", "/", " ",
      "x", ">">>

\* a backslash in an unquoted value
DocUnquotedBackslash ==
    <<"<", "a", " ", "b", "=", "c", "\\", "n", " ", ">">>

\* a CDATA prologue in lower case, and a `[` after one dash
DocLowerCData ==
    <<"<", "!", "[", "c", "d", "a", "t", "a", "[", "a", "]", "]", ">">>

DocBadComment ==
    <<"<", "!", "-", "[", "a", "-", "-", ">">>

\* the character U+0001 in a comment, a processing instruction and a CDATA
\* section
DocControlInBodies ==
    <<"<", "!", "-", "-", "SOH", "-", "-", ">", "<", "?", "x", " ", "SOH",
      "?", ">", "<", "!", "[", "C", "D", "A", "T", "A", "[", "SOH", "]", "]",
      ">">>

\* a self-closing tag with an attribute
DocSelfClosing ==
    <<"<", "a", " ", "b", "=", "\"", "c", "\"", "/", ">">>

\* tag names with a character between their name characters that is none
DocIllegalInName ==
    <<"<", "a", "=", "b", " ", "c", ":", "d", "=", "'", "e", "'", ">", "<",
      "/", "a", "'", "b", ">">>

Documents ==
    {DocReadme,
     DocUnquoted,
     DocDoubleQuoted,
     DocSingleQuoted,
     DocControlChar,
     DocUnquotedSpace,
     DocEscapes,
     DocXmlDecl,
     DocXmlDeclSingle,
     DocXmlDeclUnquoted,
     DocComments,
     DocCData,
     DocInstruction,
     DocBadCData,
     DocIllegalInName,
     DocSelfClosing,
     DocBadStarts,
     DocBareAttribute,
     DocIgnoredChars,
     DocUnquotedBackslash,
     DocLowerCData,
     DocBadComment,
     DocControlInBodies}

\* pieces of markup; the caller's text can be any sequence of at most MaxFrags
Frags ==
    {<<"<", "a">>, <<">">>, <<"/">>, <<" ", "b", "=">>, <<"'">>, <<"c">>,
     <<" ">>, <<"<", "!", "-", "-">>, <<"-">>, <<"<", "?", "x", " ">>, <<"?">>}

MaxFrags == 2

RECURSIVE fragTexts(_)
fragTexts(n) ==
    IF n = 0
        THEN {<<>>}
        ELSE LET shorter == fragTexts(n - 1)
             IN  shorter \cup {t \o f : t \in shorter, f \in Frags}

Inputs == Documents \cup fragTexts(MaxFrags)

(***************************************************************************)
(* The instance and its caller                                             *)
(***************************************************************************)
\* new Parser(options), with a text the caller is going to feed
Construct(texts) ==
    /\ state = InitialText
    /\ buffer = <<>>
    /\ closed = FALSE
    /\ strict \in BOOLEAN
    /\ todo \in texts
    /\ written = <<>>
    /\ out = <<>>
    /\ held = FALSE
    /\ res = [op |-> "new", kind |-> "ok"]

Init == Construct(Inputs)

\* p.write(data), data being the next n characters of the caller's text
WriteWith(n) ==
    LET data == SubSeq(todo, 1, n)
        w == write(buffer, closed, data)
    IN  /\ buffer' = w.buffer
        /\ res' = callResult("write", w)
        /\ IF w.kind = "ok"
              THEN /\ todo' = SubSeq(todo, n + 1, Len(todo))
                   /\ written' = written \o data
              ELSE UNCHANGED <<todo, written>>
        /\ UNCHANGED <<state, closed, strict, out, held>>

Write == \E n \in 0..Len(todo) : WriteWith(n)

\* p.close(data), data being the next n characters of the caller's text
\* (p.close() and p.close('') do the same)
CloseWith(n) ==
    LET data == SubSeq(todo, 1, n)
        r == close(buffer, closed, data)
    IN  /\ buffer' = r.buffer
        /\ closed' = r.closed
        /\ res' = callResult("close", r)
        /\ IF r.kind = "ok"
              THEN /\ todo' = SubSeq(todo, n + 1, Len(todo))
                   /\ written' = written \o data
              ELSE UNCHANGED <<todo, written>>
        /\ UNCHANGED <<state, strict, out, held>>

Close == \E n \in 0..Len(todo) : CloseWith(n)

\* a construct is partly accumulated in st
partial(st) == st.state # "Text" \/ Len(st.text) > 0

\* p.next()
Advance ==
    LET r == next(state, buffer, closed, strict)
    IN  /\ state' = r.st
        /\ buffer' = r.buffer
        /\ out' = IF r.kind = "node" THEN Append(out, r.node) ELSE out
        /\ held' = (held \/ (r.kind = "done" /\ ~closed /\ partial(r.st)))
        /\ res' = nextResult(r)
        /\ UNCHANGED <<closed, strict, todo, written>>

Next == Write \/ Close \/ Advance

Spec == Init /\ [][Next]_vars

(***************************************************************************)
(* parse(str, options) drained by its caller (Array.from, for..of): the    *)
(* nodes returned until next answers done or throws.                       *)
(***************************************************************************)
RECURSIVE drain(_, _, _, _, _)
drain(st, buf, isClosed, isStrict, nodes) ==
    LET r == next(st, buf, isClosed, isStrict)
    IN  CASE r.kind = "node" ->
                drain(r.st, r.buffer, isClosed, isStrict, Append(nodes, r.node))
          [] r.kind = "done" -> [end |-> "done", nodes |-> nodes]
          [] r.kind = "error" -> [end |-> "error", msg |-> r.msg, nodes |-> nodes]

parse(str, isStrict) ==
    LET w == write(<<>>, FALSE, str)
        c == close(w.buffer, FALSE, <<>>)
    IN  drain(InitialText, c.buffer, c.closed, isStrict, <<>>)

\* the caller has closed the instance and drained it
Drained ==
    /\ closed
    /\ buffer = <<>>
    /\ res.op = "next"
    /\ res.kind \in {"done", "error"}

(***************************************************************************)
(* Texts made only of open tags, close tags and text runs: a document is a *)
(* sequence of at most MaxConstructs constructs, no two text runs adjacent *)
(* (adjacent runs are one run), or the document of the 'basic xml' test.   *)
(***************************************************************************)
TagNames == {<<"a">>, <<"b", "c">>}

TextRuns == {<<"x", ">">>}

Constructs ==
    {[kind |-> "open", name |-> n] : n \in TagNames}
        \cup {[kind |-> "close", name |-> n] : n \in TagNames}
        \cup {[kind |-> "text", text |-> t] : t \in TextRuns}

MaxConstructs == 2

RECURSIVE constructSeqs(_)
constructSeqs(n) ==
    IF n = 0
        THEN {<<>>}
        ELSE LET shorter == constructSeqs(n - 1)
             IN  shorter \cup
                 {Append(cs, k) : cs \in shorter, k \in Constructs}

noAdjacentText(cs) ==
    \A i \in 1..(Len(cs) - 1) : ~(cs[i].kind = "text" /\ cs[i + 1].kind = "text")

\* parse('<root><child>hello</child></root>') of test 'basic xml'
BasicXml ==
    <<[kind |-> "open", name |-> <<"r", "o", "o", "t">>],
      [kind |-> "open", name |-> <<"c", "h", "i", "l", "d">>],
      [kind |-> "text", text |-> <<"h", "e", "l", "l", "o">>],
      [kind |-> "close", name |-> <<"c", "h", "i", "l", "d">>],
      [kind |-> "close", name |-> <<"r", "o", "o", "t">>]>>

TagDocs == {cs \in constructSeqs(MaxConstructs) : noAdjacentText(cs)} \cup {BasicXml}

\* the text of one construct, and of a document
renderConstruct(k) ==
    CASE k.kind = "open" -> <<"<">> \o k.name \o <<">">>
      [] k.kind = "close" -> <<"<", "/">> \o k.name \o <<">">>
      [] k.kind = "text" -> k.text

RECURSIVE render(_)
render(cs) ==
    IF cs = <<>> THEN <<>> ELSE renderConstruct(Head(cs)) \o render(Tail(cs))

TagTexts == {render(cs) : cs \in TagDocs}

InitTags == Construct(TagTexts)

SpecTags == InitTags /\ [][Next]_vars

(***************************************************************************)
(* Texts that open a comment, a CDATA section or a processing instruction  *)
(* and go on with at most MaxBodyFrags pieces, among them the construct's  *)
(* closing delimiter and the parts of it; and the documents of the tests.  *)
(***************************************************************************)
CommentOpening == <<"<", "!", "-", "-">>

CommentEnding == <<"-", "-", ">">>

CommentFrags == {<<"a">>, <<"-">>, <<">">>, CommentEnding}

CDataOpening == <<"<", "!", "[">> \o CDataPrologue

CDataEnding == <<"]", "]", ">">>

CDataFrags == {<<"a">>, <<"]">>, <<">">>, CDataEnding}

InstructionOpening == <<"<", "?", "f", "o", "o", " ">>

InstructionEnding == <<"?", ">">>

InstructionFrags == {<<"a">>, <<"?">>, <<" ">>, InstructionEnding}

MaxBodyFrags == 3

RECURSIVE bodies(_, _)
bodies(frags, n) ==
    IF n = 0
        THEN {<<>>}
        ELSE LET shorter == bodies(frags, n - 1)
             IN  shorter \cup {b \o f : b \in shorter, f \in frags}

\* parseString(...) of test 'comments'
DocCommentsTest ==
    <<"<", "!", "-", "-", "h", "e", "l", "l", "o", "-", "-", ">", "<", "c",
      "h", "i", "l", "d", ">", "h", "e", "l", "l", "o", "<", "!", "-", "-",
      " ", "<", "/", "c", "h", "i", "l", "d", ">", "<", "/", "r", "o", "o",
      "t", ">", "-", "-", ">">>

\* spec section 8, the comment with embedded near-delimiters
DocInnerDashes ==
    <<"<", "!", "-", "-", "a", "-", "-", "b", "-", "-", ">">>

\* parseString(...) of test 'processinginstruction', its body in ASCII
DocInstructionTest ==
    <<"<", "r", "o", "o", "t", ">", "h", "e", "l", "l", "o", "<", "?", "f",
      "o", "o", " ", "a", "?", "b", "?", "?", ">", "<", "/", "r", "o", "o",
      "t", ">">>

CommentTexts ==
    {CommentOpening \o b : b \in bodies(CommentFrags, MaxBodyFrags)}
        \cup {DocCommentsTest, DocInnerDashes, DocBadComment}

InitComments == Construct(CommentTexts)

SpecComments == InitComments /\ [][Next]_vars

CDataTexts ==
    {CDataOpening \o b : b \in bodies(CDataFrags, MaxBodyFrags)}
        \cup {DocCData, DocLowerCData, DocBadCData}

InitCData == Construct(CDataTexts)

SpecCData == InitCData /\ [][Next]_vars

\* a processing instruction and a declaration written without whitespace
DocInstructionNoSpace == <<"<", "?", "f", "o", "o", "?", ">">>

DocXmlDeclNoSpace == <<"<", "?", "x", "m", "l", "?", ">">>

InstructionTexts ==
    {InstructionOpening \o b : b \in bodies(InstructionFrags, MaxBodyFrags)}
        \cup {DocInstructionTest, DocInstruction, DocInstructionNoSpace,
              DocXmlDeclNoSpace}

InitInstructions == Construct(InstructionTexts)

SpecInstructions == InitInstructions /\ [][Next]_vars

(***************************************************************************)
(* Well-formed texts: sequences of at most MaxNested open tags, close      *)
(* tags, empty-element tags and text runs in which every close tag closes  *)
(* the last open tag not yet closed and no open tag is left.  A tag may    *)
(* carry the attribute b='c' or b="c".                                     *)
(***************************************************************************)
NoAttributeText == <<>>

SingleQuotedAttributeText == <<" ", "b", "=", "'", "c", "'">>

DoubleQuotedAttributeText == <<" ", "b", "=", "\"", "c", "\"">>

NestedConstructs ==
    {[kind |-> "open", name |-> <<"a">>, attributes |-> NoAttributeText],
     [kind |-> "open", name |-> <<"b", "c">>,
      attributes |-> SingleQuotedAttributeText],
     [kind |-> "close", name |-> <<"a">>],
     [kind |-> "close", name |-> <<"b", "c">>],
     [kind |-> "empty", name |-> <<"a">>,
      attributes |-> DoubleQuotedAttributeText],
     [kind |-> "text", text |-> <<"x">>]}

MaxNested == 4

RECURSIVE nestedSeqs(_)
nestedSeqs(n) ==
    IF n = 0
        THEN {<<>>}
        ELSE LET shorter == nestedSeqs(n - 1)
             IN  shorter \cup
                 {Append(cs, k) : cs \in shorter, k \in NestedConstructs}

\* cs closes the open tags of stack, last opened first, and its own
RECURSIVE wellNested(_, _)
wellNested(cs, stack) ==
    IF cs = <<>>
        THEN stack = <<>>
        ELSE LET k == Head(cs)
             IN  CASE k.kind = "open" -> wellNested(Tail(cs), <<k.name>> \o stack)
                   [] k.kind = "close" ->
                        /\ stack # <<>>
                        /\ Head(stack) = k.name
                        /\ wellNested(Tail(cs), Tail(stack))
                   [] OTHER -> wellNested(Tail(cs), stack)

renderNestedConstruct(k) ==
    CASE k.kind = "open" -> <<"<">> \o k.name \o k.attributes \o <<">">>
      [] k.kind = "close" -> <<"<", "/">> \o k.name \o <<">">>
      [] k.kind = "empty" -> <<"<">> \o k.name \o k.attributes \o <<"/", ">">>
      [] k.kind = "text" -> k.text

RECURSIVE renderNested(_)
renderNested(cs) ==
    IF cs = <<>>
        THEN <<>>
        ELSE renderNestedConstruct(Head(cs)) \o renderNested(Tail(cs))

NestedTexts ==
    {renderNested(cs) : cs \in {d \in nestedSeqs(MaxNested) : wellNested(d, <<>>)}}

InitNested == Construct(NestedTexts)

SpecNested == InitNested /\ [][Next]_vars

(***************************************************************************)
(* The caller that goes on calling next: the instance fed with one of the  *)
(* documents, next being called again whenever a call of it can change     *)
(* something.  FairAdvance is WF_vars(Advance) written out, with           *)
(* ENABLED <<Advance>>_vars computed from the result of next.              *)
(***************************************************************************)
InitDrain == Construct(Documents)

\* a call of next changes something: ENABLED <<Advance>>_vars
AdvanceEnabled ==
    LET r == next(state, buffer, closed, strict)
    IN  \/ r.st # state
        \/ r.buffer # buffer
        \/ r.kind = "node"
        \/ (~held /\ r.kind = "done" /\ ~closed /\ partial(r.st))
        \/ nextResult(r) # res

FairAdvance == []<>(~AdvanceEnabled) \/ []<><<Advance>>_vars

SpecDrain == InitDrain /\ [][Next]_vars /\ FairAdvance

(***************************************************************************)
(* Properties                                                              *)
(***************************************************************************)
UnexpectedEnd == [op |-> "next", kind |-> "error", msg |-> "unexpected end of stream"]

Exhausted == [op |-> "next", kind |-> "done"]

ParseIsClosed(op) == [op |-> op, kind |-> "error", msg |-> "parse is closed"]

\* C1: chunk-split invariance.  Whatever way the text was cut into write calls
\* and whenever next was called in between, if parse() of the whole text ends
\* without error then no next call has thrown, and once the instance is closed
\* and drained the nodes returned are exactly those parse() returns.
ChunkSplitInvariance ==
    LET whole == parse(written, strict)
    IN  /\ (res.op = "next" /\ res.kind = "error") => whole.end = "error"
        /\ (Drained /\ whole.end = "done") => out = whole.nodes

\* C1 witness: a text that parses without error has been drained after a chunk
\* boundary fell inside a construct and several nodes were returned.
ChunkSplitWitness ==
    /\ Drained
    /\ held
    /\ written = DocReadme
    /\ parse(written, strict).end = "done"
    /\ Len(out) = 4

\* the node the tokenizer is expected to return for one construct
expectedNode(k) ==
    CASE k.kind = "open" -> OpenTagNode(k.name, NoAttributes, FALSE)
      [] k.kind = "close" -> CloseTagNode(k.name)
      [] k.kind = "text" -> TextNode(k.text)

expectedNodes(cs) == [i \in 1..Len(cs) |-> expectedNode(cs[i])]

TagPairs == {<<render(cs), expectedNodes(cs)>> : cs \in TagDocs}

\* C2: for a text made only of open tags, close tags and text runs without
\* '<', no next call throws, and once the instance is closed and drained the
\* nodes returned are exactly one node per construct, in input order.
OneNodePerConstruct ==
    /\ (res.op = "next" /\ res.kind = "error") => written \notin TagTexts
    /\ Drained => \A p \in TagPairs : written = p[1] => out = p[2]

\* C2 witness: '<root><child>hello</child></root>' has been drained, with its
\* five nodes returned.
OneNodePerConstructWitness ==
    /\ Drained
    /\ written = render(BasicXml)
    /\ Len(out) = 5
    /\ out[3] = TextNode(<<"h", "e", "l", "l", "o">>)

\* C3 (as claimed): in permissive mode '<a b=unquoted>', written, closed and
\* drained, gives the single node OpenTag(a, {b: "unquoted"}).
UnquotedValueEndsAtTagClose ==
    (Drained /\ ~strict /\ written = DocUnquoted) =>
        out = <<OpenTagNode(<<"a">>,
                    withAttribute(NoAttributes, <<"b">>,
                        <<"u", "n", "q", "u", "o", "t", "e", "d">>),
                    FALSE)>>

attributeValueStates == {"TagAttributeValue", "XMLDeclAttributeValue"}

InvalidValueStart == "invalid attribute value starting character"

StrictRejectsSingleQuote ==
    strict =>
        /\ state.state \in attributeValueStates => state.quotationMark # SingleQuote
        /\ (Drained /\ written = DocSingleQuoted) => out = <<>>

\* C6 (as claimed): with strict = true no character failing isChar is taken
\* into an attribute value.
StrictRejectsNonCharInValue ==
    strict =>
        (state.state \in attributeValueStates =>
            \A i \in 1..Len(state.attributeValue) :
                isChar(CharCode[state.attributeValue[i]]))

streamEnded == closed /\ buffer = <<>> /\ state.state # "Text"

\* C7: once the instance is closed and the queue is empty while the state is
\* not Text, every next call throws 'unexpected end of stream' and returns no
\* node, and no call changes the queue, the state or the flag any more (so
\* every later next call fails the same way).
EndOfStreamIsFatal ==
    [][streamEnded =>
          /\ streamEnded'
          /\ state' = state
          /\ out' = out
          /\ Advance => res' = UnexpectedEnd]_vars

\* C7 witness: '<roo' was written, the instance closed, and next has thrown.
EndOfStreamWitness ==
    /\ written = <<"<", "r", "o", "o">>
    /\ closed
    /\ res = UnexpectedEnd
    /\ state = [state |-> "TagName", tagName |-> <<"r", "o", "o">>]
    /\ out = <<>>

\* C8: on an instance that is not closed, a next call whose loop empties the
\* queue without returning or throwing answers done, returns no node and
\* leaves the state as the loop left it, in every parse state; after
\* write('<hello>wor') and a drain only OpenTag(hello) was returned and 'wor'
\* is held.
OpenInstanceHoldsPartialConstruct ==
    /\ [][(~closed /\ Advance /\ runLoop(state, buffer, strict).kind = "empty") =>
              /\ res' = Exhausted
              /\ out' = out
              /\ state' = runLoop(state, buffer, strict).st
              /\ buffer' = <<>>]_vars
    /\ [](( /\ ~closed
            /\ written = <<"<", "h", "e", "l", "l", "o", ">", "w", "o", "r">>
            /\ buffer = <<>>
            /\ res = Exhausted) =>
              /\ out = <<OpenTagNode(<<"h", "e", "l", "l", "o">>, NoAttributes, FALSE)>>
              /\ state = [state |-> "Text", text |-> <<"w", "o", "r">>])

\* C8 witness: after write('<hello>wor') and a drain, 'wor' is held.
HoldsPartialWitness ==
    /\ ~closed
    /\ written = <<"<", "h", "e", "l", "l", "o", ">", "w", "o", "r">>
    /\ buffer = <<>>
    /\ res = Exhausted
    /\ Len(out) = 1
    /\ state = [state |-> "Text", text |-> <<"w", "o", "r">>]

\* C9: on a closed instance with an empty queue and the state Text, a next
\* call returns one Text node carrying the accumulated text and resets the
\* accumulator when the text is not empty, and answers done, returning
\* nothing, when it is empty; the instance stays closed with an empty queue,
\* so after the flush every next call answers done.
TrailingTextFlushedOnce ==
    [][(closed /\ buffer = <<>> /\ state.state = "Text") =>
          /\ closed' /\ buffer' = <<>> /\ state'.state = "Text"
          /\ Advance =>
                IF Len(state.text) > 0
                    THEN /\ res' = [op |-> "next", kind |-> "node",
                                    node |-> TextNode(state.text)]
                         /\ out' = Append(out, TextNode(state.text))
                         /\ state' = InitialText
                    ELSE /\ res' = Exhausted
                         /\ out' = out
                         /\ state' = state
          /\ ~Advance => state' = state /\ out' = out]_vars

\* C9 witness: the trailing 'asdf' of the README text has been flushed after
\* close.
TrailingTextWitness ==
    /\ closed
    /\ written = DocReadme
    /\ res = [op |-> "next", kind |-> "node",
              node |-> TextNode(<<"a", "s", "d", "f">>)]
    /\ state = InitialText
    /\ buffer = <<>>

\* C10: once closed, the flag stays true, the queue never grows, and every
\* write, direct or through close with a final text that is not empty, throws
\* 'parse is closed' and leaves the queue, the state and the flag unchanged.
ClosedIsPermanent ==
    [][closed =>
          /\ closed'
          /\ Len(buffer') <= Len(buffer)
          /\ (res'.op = "write" /\ Write) =>
                /\ res' = ParseIsClosed("write")
                /\ UNCHANGED <<buffer, state, closed, written>>
          /\ (res'.op = "close" /\ \E n \in 1..Len(todo) : CloseWith(n)) =>
                /\ res' = ParseIsClosed("close")
                /\ UNCHANGED <<buffer, state, closed, written>>]_vars

\* C10 witness: close with a final text was called on a closed instance and
\* threw.
ClosedWitness ==
    /\ closed
    /\ res = ParseIsClosed("close")
    /\ Len(todo) > 0

\* the characters of the written text that next has shifted from the queue
consumed == Len(written) - Len(buffer)

\* the position in s of the last character of the first occurrence of delim,
\* 0 when delim does not occur
firstEnd(s, delim) ==
    LET ends == {i \in Len(delim)..Len(s) :
                    SubSeq(s, i - Len(delim) + 1, i) = delim}
    IN  IF ends = {} THEN 0 ELSE CHOOSE i \in ends : \A j \in ends : i <= j

\* the written text after its first n characters
after(n) == SubSeq(written, n + 1, Len(written))

\* next has thrown something else than 'unexpected end of stream'
ThrownInside == res.op = "next" /\ res.kind = "error" /\ res # UnexpectedEnd

\* C11: in permissive mode a comment ends at the first `>` that follows two
\* dashes and at no other place: before that `>` is shifted no node has been
\* returned and nothing was thrown but the end of the stream; once it is shifted
\* the first node is the Comment whose body is everything between `<!--` and
\* that `-->`, dashes, `<` and `>` included.  The document of test 'comments'
\* gives its four nodes.
CommentEndsAtFirstDelimiter ==
    /\ (~strict /\ startsWith(written, CommentOpening)) =>
            LET body == after(Len(CommentOpening))
                e == firstEnd(body, CommentEnding)
                shifted == e > 0 /\ consumed >= Len(CommentOpening) + e
            IN  /\ ~shifted => (out = <<>> /\ ~ThrownInside)
                /\ shifted =>
                      /\ Len(out) >= 1
                      /\ out[1] = CommentNode(SubSeq(body, 1, e - Len(CommentEnding)))
    /\ (~strict /\ written = DocCommentsTest /\ Drained) =>
            /\ res = Exhausted
            /\ out = <<CommentNode(<<"h", "e", "l", "l", "o">>),
                       OpenTagNode(<<"c", "h", "i", "l", "d">>, NoAttributes, FALSE),
                       TextNode(<<"h", "e", "l", "l", "o">>),
                       CommentNode(<<" ", "<", "/", "c", "h", "i", "l", "d", ">",
                                     "<", "/", "r", "o", "o", "t", ">">>)>>

\* C11 witness: `<!--a--b-->` was parsed in permissive mode and gave the one
\* Comment a--b.
CommentWitness ==
    /\ ~strict
    /\ written = DocInnerDashes
    /\ Drained
    /\ out = <<CommentNode(<<"a", "-", "-", "b">>)>>

\* C12: in strict mode `<!--a--b-->` is rejected: next throws and no Comment
\* node is returned.
StrictRejectsInnerDashes ==
    (strict /\ written = DocInnerDashes /\ Drained) =>
        /\ res.kind = "error"
        /\ out = <<>>

\* what next does when the one code unit c is queued on the open instance
onNext(c) == next(state, <<c>>, FALSE, strict)

CommentStartError ==
    [op |-> "next", kind |-> "error", msg |-> "invalid comment starting character"]

CommentEndingError ==
    [op |-> "next", kind |-> "error", msg |-> "malformed comment ending sequence"]

\* C13: inside a comment a `-` that arrives while the body is empty, and a `>`
\* that arrives after more than two pending dashes, make next throw in strict
\* mode (leaving the state as it was) and are accepted in permissive mode, where
\* the dash is counted and the `>` returns the Comment whose body ends with the
\* dashes beyond two.  A `-` after a body that is not empty and a `>` after
\* exactly two dashes are accepted in both modes, and the two errors are thrown
\* in strict mode only.
StrictCommentDashes ==
    /\ state.state = "Comment" =>
          /\ Len(state.text) = 0 =>
                IF strict
                    THEN /\ nextResult(onNext(Dash)) = CommentStartError
                         /\ onNext(Dash).st = state
                    ELSE /\ onNext(Dash).kind = "done"
                         /\ onNext(Dash).st = [state EXCEPT !.dashes = @ + 1]
          /\ Len(state.text) > 0 =>
                /\ onNext(Dash).kind = "done"
                /\ onNext(Dash).st = [state EXCEPT !.dashes = @ + 1]
          /\ state.dashes > 2 =>
                IF strict
                    THEN /\ nextResult(onNext(TagClose)) = CommentEndingError
                         /\ onNext(TagClose).st = state
                    ELSE /\ onNext(TagClose).kind = "node"
                         /\ onNext(TagClose).node =
                                CommentNode(state.text \o repeat("-", state.dashes - 2))
          /\ state.dashes = 2 =>
                /\ onNext(TagClose).kind = "node"
                /\ onNext(TagClose).node = CommentNode(state.text)
    /\ (state.state = "Comment" /\ res = CommentStartError) =>
            (strict /\ Len(state.text) = 0)
    /\ res = CommentEndingError =>
            (strict /\ state.state = "Comment" /\ state.dashes > 2)

\* C13 witness: in strict mode the `>` of `<!--a--->` has just made next throw.
StrictCommentWitness ==
    /\ strict
    /\ written = CommentOpening \o <<"a", "-", "-", "-", ">">>
    /\ buffer = <<>>
    /\ res = CommentEndingError
    /\ state = [state |-> "Comment", text |-> <<"a">>, dashes |-> 3]

\* s occurs in the part of the written text that next has shifted
shiftedContains(s) ==
    \E k \in 1..consumed :
        /\ k + Len(s) - 1 <= consumed
        /\ SubSeq(written, k, k + Len(s) - 1) = s

DocCDataNodes ==
    <<OpenTagNode(<<"r", "o", "o", "t">>, NoAttributes, FALSE),
      TextNode(<<"h", "e", "l", "l", "o">>),
      CDataNode(<<" ", "w", "o", "r", "l", "d", " ">>),
      CloseTagNode(<<"r", "o", "o", "t">>)>>

\* C14: a CDATA section is entered by `<![CDATA[` only (the CData state is held,
\* and a CData node returned, only after that sequence was shifted) and ends at
\* the first `>` that follows two `]` and at no other place: before that `>` is
\* shifted no node has been returned and nothing was thrown but the end of the
\* stream; once it is shifted the first node is the CData whose body is
\* everything between `<![CDATA[` and that `]]>`, lone `]` and `>` included.
\* `<root>hello<![CDATA[ world ]]></root>` gives its four nodes.
CDataEndsAtFirstDelimiter ==
    /\ startsWith(written, CDataOpening) =>
            LET body == after(Len(CDataOpening))
                e == firstEnd(body, CDataEnding)
                shifted == e > 0 /\ consumed >= Len(CDataOpening) + e
            IN  /\ ~shifted => (out = <<>> /\ ~ThrownInside)
                /\ shifted =>
                      /\ Len(out) >= 1
                      /\ out[1] = CDataNode(SubSeq(body, 1, e - Len(CDataEnding)))
    /\ (state.state = "CData" \/ \E i \in 1..Len(out) : out[i].type = "cdata") =>
            shiftedContains(CDataOpening)
    /\ (written = DocCData /\ Drained) =>
            /\ res = Exhausted
            /\ out = DocCDataNodes

\* C14 witness: `<root>hello<![CDATA[ world ]]></root>` was parsed and gave its
\* four nodes, after a chunk boundary had fallen inside a construct.
CDataWitness ==
    /\ written = DocCData
    /\ Drained
    /\ held
    /\ out = DocCDataNodes

DocXmlDeclNodes ==
    <<XMLDeclNode(withAttribute(
            withAttribute(NoAttributes, <<"v", "e", "r", "s", "i", "o", "n">>,
                          <<"1", ".", "0">>),
            <<"e", "n", "c", "o", "d", "i", "n", "g">>,
            <<"U", "T", "F", "-", "8">>)),
      OpenTagNode(<<"a">>, NoAttributes, TRUE)>>

\* C15: `<?xml version="1.0" encoding="UTF-8"?><a/>` gives the XmlDecl node
\* with its two attributes, then OpenTag(a, empty), and nothing else.
XmlDeclYieldsOneNode ==
    (written = DocXmlDecl /\ Drained) =>
        /\ res = Exhausted
        /\ out = DocXmlDeclNodes

\* (what holds of the same declarations in permissive mode, and in both modes
\* when the values are quoted with `'`)
XmlDeclPermissive ==
    /\ (~strict /\ written = DocXmlDecl /\ Drained) =>
            (res = Exhausted /\ out = DocXmlDeclNodes)
    /\ (written = DocXmlDeclSingle /\ Drained) =>
            /\ res = Exhausted
            /\ out = <<XMLDeclNode(withAttribute(NoAttributes, <<"v">>, <<"1">>)),
                       TextNode(<<" ">>)>>

DocInstructionTestNodes ==
    <<OpenTagNode(<<"r", "o", "o", "t">>, NoAttributes, FALSE),
      TextNode(<<"h", "e", "l", "l", "o">>),
      ProcessingInstructionNode(<<"f", "o", "o">>, <<"a", "?", "b", "?">>),
      CloseTagNode(<<"r", "o", "o", "t">>)>>

\* C16: a processing instruction `<?foo ` ... ends at the first `?` that is
\* followed by `>` and at no other place: before that `>` is shifted no node
\* has been returned and nothing was thrown but the end of the stream; once it
\* is shifted the first node is the ProcessingInstruction named foo whose body
\* is every character between the whitespace after the name and that `?>`,
\* each `?` that another character follows included.  The document of test
\* 'processinginstruction' gives its four nodes.
InstructionEndsAtFirstDelimiter ==
    /\ startsWith(written, InstructionOpening) =>
            LET body == after(Len(InstructionOpening))
                e == firstEnd(body, InstructionEnding)
                shifted == e > 0 /\ consumed >= Len(InstructionOpening) + e
            IN  /\ ~shifted => (out = <<>> /\ ~ThrownInside)
                /\ shifted =>
                      /\ Len(out) >= 1
                      /\ out[1] = ProcessingInstructionNode(<<"f", "o", "o">>,
                                      SubSeq(body, 1, e - Len(InstructionEnding)))
    /\ (written = DocInstructionTest /\ Drained) =>
            /\ res = Exhausted
            /\ out = DocInstructionTestNodes

\* C16 witness: `<?foo a?b??>x` was parsed and gave the instruction foo with
\* the body a?b?, then the text x.
InstructionWitness ==
    /\ written = DocInstruction
    /\ Drained
    /\ out = <<ProcessingInstructionNode(<<"f", "o", "o">>, <<"a", "?", "b", "?">>),
               TextNode(<<"x">>)>>

\* C17: while a tag name is accumulated (TagName, name not empty) every
\* character that is not a name character, whitespace, `>` or `/` makes next
\* throw.
IllegalTagNameCharThrows ==
    (state.state = "TagName" /\ Len(state.tagName) > 0) =>
        \A c \in Codes :
            (~isNameChar(c) /\ ~isWhiteSpace(c) /\ c # TagClose /\ c # Slash) =>
                onNext(c).kind = "error"

\* the OpenTag and CloseTag nodes of nodes close the open tags of stack, last
\* opened first, and their own; an OpenTag with empty = true opens nothing
RECURSIVE balanced(_, _)
balanced(nodes, stack) ==
    IF nodes = <<>>
        THEN stack = <<>>
        ELSE LET n == Head(nodes)
             IN  CASE n.type = "opentag" /\ ~n.opentag.empty ->
                        balanced(Tail(nodes), <<n.opentag.name>> \o stack)
                   [] n.type = "closetag" ->
                        /\ stack # <<>>
                        /\ Head(stack) = n.closetag
                        /\ balanced(Tail(nodes), Tail(stack))
                   [] OTHER -> balanced(Tail(nodes), stack)

\* C18: when a well-formed text with balanced, properly nested tags has been
\* parsed, the OpenTag and CloseTag nodes returned form a balanced, properly
\* nested sequence.
NestedTagsStayBalanced ==
    (written \in NestedTexts /\ Drained) => balanced(out, <<>>)

\* (what holds of the same texts: in permissive mode, and in strict mode when
\* no attribute value is opened by `"`)
NestedTagsPermissive ==
    (/\ written \in NestedTexts
     /\ Drained
     /\ (strict => \A i \in 1..Len(written) : written[i] # "\"")) =>
        /\ res = Exhausted
        /\ balanced(out, <<>>)

\* s is a name: a name start character followed by name characters
isName(s) ==
    /\ Len(s) > 0
    /\ isNameStartChar(CharCode[s[1]])
    /\ \A i \in 2..Len(s) : isNameChar(CharCode[s[i]])

\* C19: whatever the text and the way it was cut, the name of every OpenTag
\* and CloseTag node returned is a name (not empty, a name start character
\* followed by name characters), and so is every key of the attributes of
\* every OpenTag and XmlDecl node returned.
EmittedNamesAreNames ==
    \A i \in 1..Len(out) :
        /\ out[i].type = "opentag" =>
                /\ isName(out[i].opentag.name)
                /\ \A k \in DOMAIN out[i].opentag.attributes : isName(k)
        /\ out[i].type = "closetag" => isName(out[i].closetag)
        /\ out[i].type = "xmldecl" =>
                \A k \in DOMAIN out[i].xmldecl : isName(k)

\* C19 witness: a text whose tag names have a character that is no name
\* character between their letters was parsed, and an OpenTag with an attribute
\* and a CloseTag were returned.
EmittedNamesWitness ==
    /\ written = DocIllegalInName
    /\ Drained
    /\ out = <<OpenTagNode(<<"a", "b">>,
                    withAttribute(NoAttributes, <<"c", ":", "d">>, <<"e">>), FALSE),
               CloseTagNode(<<"a", "b">>)>>

\* the state after every element of buf was shifted and none of them made a
\* case return or throw, if that is so
RECURSIVE shiftQuietly(_, _, _)
shiftQuietly(st, buf, isStrict) ==
    IF buf = <<>>
        THEN [quiet |-> TRUE, st |-> st]
        ELSE LET r == step(st, Head(buf), isStrict)
             IN  IF r.kind = "continue"
                    THEN shiftQuietly(r.st, Tail(buf), isStrict)
                    ELSE [quiet |-> FALSE]

\* C20: a call of next returns at most one node and takes elements from the
\* front of the queue only.  When it returns a node made by an element of the
\* queue, it has taken k elements: the first k - 1 made no case return or
\* throw, the element at position k made its case return that node, and the
\* queue after the call is the elements that followed position k, in their
\* order.  (The only other node is the trailing text, returned when no element
\* of the queue makes a node and the instance is closed.)  The nodes returned
\* so far are the earlier ones followed by the new one.
OneNodePerAdvance ==
    [][Advance =>
          LET k == Len(buffer) - Len(buffer')
          IN  /\ k >= 0
              /\ buffer' = SubSeq(buffer, k + 1, Len(buffer))
              /\ IF res'.kind = "node"
                    THEN /\ out' = Append(out, res'.node)
                         /\ IF shiftQuietly(state, buffer, strict).quiet
                               THEN /\ closed
                                    /\ k = Len(buffer)
                                    /\ res'.node.type = "text"
                               ELSE /\ k > 0
                                    /\ LET q == shiftQuietly(state,
                                                  SubSeq(buffer, 1, k - 1), strict)
                                       IN  /\ q.quiet
                                           /\ step(q.st, buffer[k], strict)
                                                = Return(state', res'.node)
                    ELSE out' = out]_vars

\* C20 witness: next has returned the OpenTag of `<hello>world</hello>asdf`
\* while the rest of the text was in the queue, and the rest is still there.
OneNodePerAdvanceWitness ==
    /\ written = DocReadme
    /\ res = [op |-> "next", kind |-> "node",
              node |-> OpenTagNode(<<"h", "e", "l", "l", "o">>, NoAttributes, FALSE)]
    /\ out = <<res.node>>
    /\ buffer = charCodes(SubSeq(written, 8, Len(written)))

TagNameStart == [state |-> "TagName", tagName |-> <<>>]

\* C21 as stated: whenever next has returned a node, the parse state is Text
\* with an empty accumulator.
NodeLeavesText ==
    (res.op = "next" /\ res.kind = "node") => state = InitialText

\* C21, amended: whenever next has returned a node, the parse state is Text
\* with an empty accumulator, unless the node is the Text node that a `<` has
\* flushed: then the state is TagName with an empty name.
NodeLeavesTextOrTagName ==
    (res.op = "next" /\ res.kind = "node") =>
        IF res.node.type = "text" /\ written[consumed] = "<"
            THEN state = TagNameStart
            ELSE state = InitialText

\* C21 witness: the `<` of `</hello>` has flushed the Text node world and the
\* state is TagName with an empty name.
NodeLeavesTagNameWitness ==
    /\ written = DocReadme
    /\ res = [op |-> "next", kind |-> "node",
              node |-> TextNode(<<"w", "o", "r", "l", "d">>)]
    /\ state = TagNameStart

\* C22: in permissive mode `<a b="c"/>` gives OpenTag(a, empty) with the
\* attribute b = c, the attributes `<a b="c">` gives.
SelfClosingKeepsAttributes ==
    /\ (~strict /\ written = DocSelfClosing /\ Drained) =>
            out = <<OpenTagNode(<<"a">>,
                        withAttribute(NoAttributes, <<"b">>, <<"c">>), TRUE)>>
    /\ (~strict /\ written = DocDoubleQuoted /\ Drained) =>
            out = <<OpenTagNode(<<"a">>,
                        withAttribute(NoAttributes, <<"b">>, <<"c">>), FALSE)>>

InvalidTagNameStart ==
    [op |-> "next", kind |-> "error", msg |-> "invalid tag name starting character"]

\* next has shifted the one code unit c without returning or throwing, and the
\* state is st
shiftsTo(c, st) == onNext(c).kind = "done" /\ onNext(c).st = st

\* next has thrown e on the one code unit c and left the state as it was
throwsOn(c, e) == nextResult(onNext(c)) = e /\ onNext(c).st = state

\* C23: right after `<` (TagName, no name yet) a name start character begins
\* the name, `/` goes to ClosingTagName, `?` to ProcessingInstructionName, `!`
\* to CommentStart, and every other character makes next throw 'invalid tag
\* name starting character'; right after `</` (ClosingTagName, no name yet) a
\* name start character begins the name and every other character makes next
\* throw the same error.
FirstCharacterDecides ==
    /\ state = TagNameStart =>
          \A c \in Codes :
              CASE isNameStartChar(c) ->
                      shiftsTo(c, [state |-> "TagName", tagName |-> <<fromCharCode(c)>>])
                [] c = Slash ->
                      shiftsTo(c, [state |-> "ClosingTagName", tagName |-> <<>>])
                [] c = QuestionMark ->
                      shiftsTo(c, [state |-> "ProcessingInstructionName", name |-> <<>>])
                [] c = ExclamationMark ->
                      shiftsTo(c, [state |-> "CommentStart", dashes |-> 0])
                [] OTHER -> throwsOn(c, InvalidTagNameStart)
    /\ state = [state |-> "ClosingTagName", tagName |-> <<>>] =>
          \A c \in Codes :
              IF isNameStartChar(c)
                  THEN shiftsTo(c, [state |-> "ClosingTagName",
                                    tagName |-> <<fromCharCode(c)>>])
                  ELSE throwsOn(c, InvalidTagNameStart)

\* C23 witness: in `<=a></=b>` the `=` after `</` has just made next throw,
\* after the `=` after `<` had.
FirstCharacterWitness ==
    /\ written = SubSeq(DocBadStarts, 1, 7)
    /\ buffer = <<>>
    /\ res = InvalidTagNameStart
    /\ state = [state |-> "ClosingTagName", tagName |-> <<>>]
    /\ out = <<OpenTagNode(<<"a">>, NoAttributes, FALSE)>>

InvalidTagAttributeName ==
    [op |-> "next", kind |-> "error", msg |-> "invalid tag attribute name character"]

InvalidXMLDeclAttributeName ==
    [op |-> "next", kind |-> "error",
     msg |-> "invalid xml decl attribute name character"]

\* next has shifted the one code unit c into the state tagged type, in which
\* the value of the attribute named so far starts
startsValue(c, type) ==
    /\ onNext(c).kind = "done"
    /\ onNext(c).st.state = type
    /\ onNext(c).st.attributes = state.attributes
    /\ onNext(c).st.attributeName = state.attributeName
    /\ onNext(c).st.attributeValue = <<>>
    /\ ~onNext(c).st.escaped
    /\ onNext(c).st.quotationMark = NoQuotationMark

\* next has shifted the one code unit c into the state tagged type, in which
\* the `=` of the attribute named so far is awaited
awaitsEquals(c, type) ==
    /\ onNext(c).kind = "done"
    /\ onNext(c).st.state = type
    /\ onNext(c).st.attributes = state.attributes
    /\ onNext(c).st.attributeName = state.attributeName

\* C24: while an attribute name is accumulated, in a tag and in the XML
\* declaration, whitespace moves to the state that awaits `=`, `=` moves to the
\* value state with an empty value, a name character extends the name, and
\* every other character, `>` included, makes next throw the invalid attribute
\* name character error of the construct and leaves the state as it was.
AttributeNameCharacters ==
    /\ state.state = "TagAttributeName" =>
          /\ \A c \in Codes :
                CASE isWhiteSpace(c) ->
                        /\ awaitsEquals(c, "TagAttribute")
                        /\ onNext(c).st.tagName = state.tagName
                  [] c = Equals ->
                        /\ startsValue(c, "TagAttributeValue")
                        /\ onNext(c).st.tagName = state.tagName
                  [] isNameChar(c) ->
                        shiftsTo(c, [state EXCEPT
                                        !.attributeName = Append(@, fromCharCode(c))])
                  [] OTHER -> throwsOn(c, InvalidTagAttributeName)
          /\ throwsOn(TagClose, InvalidTagAttributeName)
    /\ state.state = "XMLDeclAttributeName" =>
          /\ \A c \in Codes :
                CASE isWhiteSpace(c) -> awaitsEquals(c, "XMLDeclAttribute")
                  [] c = Equals -> startsValue(c, "XMLDeclAttributeValue")
                  [] isNameChar(c) ->
                        shiftsTo(c, [state EXCEPT
                                        !.attributeName = Append(@, fromCharCode(c))])
                  [] OTHER -> throwsOn(c, InvalidXMLDeclAttributeName)
          /\ throwsOn(TagClose, InvalidXMLDeclAttributeName)

\* C24 witness: the `>` of `<a b>` has just made next throw while the name b
\* was accumulated.
AttributeNameWitness ==
    /\ written = DocBareAttribute
    /\ buffer = <<>>
    /\ res = InvalidTagAttributeName
    /\ state = [state |-> "TagAttributeName", tagName |-> <<"a">>,
                attributes |-> NoAttributes, attributeName |-> <<"b">>]

\* C25: in TagEmpty every character but `>`, and in TagAttribute every character
\* but `=` (`>` included), is shifted with the parse state left as it was, no
\* node returned and nothing thrown, in strict and in permissive mode.
IgnoredCharacters ==
    /\ state.state = "TagEmpty" =>
          \A c \in Codes \ {TagClose} : shiftsTo(c, state)
    /\ state.state = "TagAttribute" =>
          /\ \A c \in Codes \ {Equals} : shiftsTo(c, state)
          /\ shiftsTo(TagClose, state)

\* C25 witness: `<a b >x= 'c'/ x>` was parsed in strict mode: the `>` and the x
\* after `b ` and the space and the x after `/` were shifted without effect,
\* and the one node is the OpenTag the last `>` ended.
IgnoredCharactersWitness ==
    /\ strict
    /\ written = DocIgnoredChars
    /\ Drained
    /\ res = Exhausted
    /\ out = <<OpenTagNode(<<"a">>, NoAttributes, TRUE)>>

UnexpectedEscape ==
    [op |-> "next", kind |-> "error", msg |-> "unexpected escape character"]

\* the state after ch was appended to the attribute value
valueWith(ch) ==
    [state EXCEPT !.attributeValue = Append(@, ch), !.escaped = FALSE]

\* C26: in an attribute value, of a tag or of the XML declaration: when the
\* value is quoted a `\` arms the escape and appends nothing; when the escape
\* is armed `\` appends a backslash, n a line feed and r a carriage return, and
\* every other character, the active quotation mark included, makes next throw
\* 'unexpected escape character' and leaves the state as it was; when the value
\* is not quoted a `\` is appended to it and arms nothing, and the escape is
\* never armed.
EscapesInQuotedValuesOnly ==
    state.state \in attributeValueStates =>
        LET quoted == state.quotationMark # NoQuotationMark
        IN  /\ state.escaped => quoted
            /\ (quoted /\ ~state.escaped) =>
                    shiftsTo(BackSlash, [state EXCEPT !.escaped = TRUE])
            /\ state.escaped =>
                    /\ \A c \in Codes :
                          CASE c = 92 -> shiftsTo(c, valueWith("\\"))
                            [] c = 110 -> shiftsTo(c, valueWith("\n"))
                            [] c = 114 -> shiftsTo(c, valueWith("\r"))
                            [] OTHER -> throwsOn(c, UnexpectedEscape)
                    /\ throwsOn(state.quotationMark, UnexpectedEscape)
            /\ (~quoted /\ (Len(state.attributeValue) > 0 \/ ~strict)) =>
                    shiftsTo(BackSlash, valueWith("\\"))

\* C26 witness: in `<a b="\n\\" c='\q'>` the two escapes of b were resolved to
\* a line feed and a backslash, and the q after the `\` of c has just made
\* next throw.
EscapesWitness ==
    /\ ~strict
    /\ res = UnexpectedEscape
    /\ written = SubSeq(DocEscapes, 1, 17)
    /\ buffer = <<>>
    /\ state.state = "TagAttributeValue"
    /\ state.escaped
    /\ state.attributes = withAttribute(NoAttributes, <<"b">>, <<"\n", "\\">>)

CDataStartError ==
    [op |-> "next", kind |-> "error", msg |-> "invalid cdata starting sequence"]

\* C27: after `<!` (CommentStart) a `[` before any dash goes to CDataStart, a
\* first `-` is counted and a second one enters Comment with an empty body, and
\* every other character, a `[` after one dash included, makes next throw
\* 'invalid comment starting character'.  After `<![` (CDataStart) a character
\* that completes `CDATA[` enters CData with an empty body, one that keeps the
\* prologue a prefix of `CDATA[` is shifted, and every other one makes next
\* throw 'invalid cdata starting sequence'.  The texts that fail so give parse
\* no node.
OnlyCommentOrCDataAfterBang ==
    /\ state.state = "CommentStart" =>
          /\ state.dashes \in {0, 1}
          /\ \A c \in Codes :
                CASE state.dashes = 0 /\ c = LeftSquareBracket ->
                        shiftsTo(c, [state |-> "CDataStart", prologue |-> <<>>])
                  [] c = Dash /\ state.dashes = 0 ->
                        shiftsTo(c, [state |-> "CommentStart", dashes |-> 1])
                  [] c = Dash /\ state.dashes = 1 ->
                        shiftsTo(c, [state |-> "Comment", text |-> <<>>, dashes |-> 0])
                  [] OTHER -> throwsOn(c, CommentStartError)
    /\ state.state = "CDataStart" =>
          \A c \in Codes :
              LET prologue == Append(state.prologue, fromCharCode(c))
              IN  CASE prologue = CDataPrologue ->
                          shiftsTo(c, [state |-> "CData", text |-> <<>>,
                                       brackets |-> 0])
                    [] prologue # CDataPrologue
                       /\ Len(prologue) < Len(CDataPrologue)
                       /\ prologue = SubSeq(CDataPrologue, 1, Len(prologue)) ->
                          shiftsTo(c, [state |-> "CDataStart", prologue |-> prologue])
                    [] OTHER -> nextResult(onNext(c)) = CDataStartError
    /\ written \in {DocBadComment, DocLowerCData, DocBadCData} =>
          /\ parse(written, strict).end = "error"
          /\ parse(written, strict).nodes = <<>>

\* C27 witness: the `[` after the one dash of `<!-[` has just made next throw.
BangWitness ==
    /\ written = SubSeq(DocBadComment, 1, 4)
    /\ buffer = <<>>
    /\ res = CommentStartError
    /\ state = [state |-> "CommentStart", dashes |-> 1]
    /\ out = <<>>

InvalidCommentCharacter ==
    [op |-> "next", kind |-> "error", msg |-> "invalid comment character"]

InvalidInstructionCharacter ==
    [op |-> "next", kind |-> "error",
     msg |-> "invalid processing instruction character"]

InvalidCDataCharacter ==
    [op |-> "next", kind |-> "error", msg |-> "invalid cdata character"]

\* the code units of the alphabet that fail isChar
NonChars == {c \in Codes : ~isChar(c)}

DocControlInBodiesNodes ==
    <<CommentNode(<<"SOH">>),
      ProcessingInstructionNode(<<"x">>, <<"SOH">>),
      CDataNode(<<"SOH">>)>>

\* C28: in the ProcessingInstruction, Comment and CData states a character
\* that fails isChar makes next throw in strict mode, leaving the state as it
\* was, and in permissive mode is appended to the body after the pending `?`,
\* dashes or `]`.  The delimiter characters are taken before that test in both
\* modes: `?` and `]` are counted, and the `>` that ends the construct returns
\* its node.
StrictBodyCharacters ==
    /\ state.state = "ProcessingInstruction" =>
          /\ \A c \in NonChars :
                IF strict
                    THEN throwsOn(c, InvalidInstructionCharacter)
                    ELSE shiftsTo(c, [state EXCEPT
                            !.text = Append(IF state.ending THEN Append(@, "?") ELSE @,
                                            fromCharCode(c)),
                            !.ending = FALSE])
          /\ onNext(QuestionMark).kind = "done"
          /\ state.ending => onNext(TagClose).kind = "node"
    /\ state.state = "Comment" =>
          /\ \A c \in NonChars :
                IF strict
                    THEN throwsOn(c, InvalidCommentCharacter)
                    ELSE shiftsTo(c, [state EXCEPT
                            !.text = Append(@ \o repeat("-", state.dashes),
                                            fromCharCode(c)),
                            !.dashes = 0])
          /\ Len(state.text) > 0 => onNext(Dash).kind = "done"
          /\ state.dashes = 2 => onNext(TagClose).kind = "node"
    /\ state.state = "CData" =>
          /\ \A c \in NonChars :
                IF strict
                    THEN throwsOn(c, InvalidCDataCharacter)
                    ELSE shiftsTo(c, [state EXCEPT
                            !.text = Append(@ \o repeat("]", state.brackets),
                                            fromCharCode(c)),
                            !.brackets = 0])
          /\ shiftsTo(RightSquareBracket, [state EXCEPT !.brackets = @ + 1])
          /\ state.brackets >= 2 => onNext(TagClose).kind = "node"
    /\ res \in {InvalidCommentCharacter, InvalidInstructionCharacter,
                InvalidCDataCharacter} => strict
    /\ (~strict /\ written = DocControlInBodies /\ Drained) =>
          /\ res = Exhausted
          /\ out = DocControlInBodiesNodes

\* C28 witness: the character U+0001 was given in a comment, a processing
\* instruction and a CDATA section in permissive mode, and is the body of the
\* three nodes.
BodyCharactersWitness ==
    /\ ~strict
    /\ written = DocControlInBodies
    /\ Drained
    /\ out = DocControlInBodiesNodes

\* (in strict mode the same character has just made next throw in the comment)
StrictBodyCharactersThrown ==
    /\ strict
    /\ res = InvalidCommentCharacter
    /\ state = [state |-> "Comment", text |-> <<>>, dashes |-> 0]

\* C29: whatever the text and the way it was cut, no Text node returned has an
\* empty text: with an empty accumulator a `<` is shifted without a node being
\* returned, and next on the closed instance with an empty queue answers done.
NoEmptyTextNode ==
    /\ \A i \in 1..Len(out) : out[i].type = "text" => Len(out[i].text) > 0
    /\ state = InitialText =>
          /\ shiftsTo(TagOpen, TagNameStart)
          /\ next(state, <<>>, TRUE, strict).kind = "done"

\* C29 witness: `<?xml version="1.0" encoding="UTF-8"?><a/>` was parsed: both
\* `<` came with an empty accumulator and so did the end of the stream, and no
\* Text node was returned.
NoEmptyTextWitness ==
    /\ ~strict
    /\ written = DocXmlDecl
    /\ Drained
    /\ res = Exhausted
    /\ out = DocXmlDeclNodes

\* what next can still return nodes from: the queued code units, and the text
\* accumulated for the trailing Text node
remaining ==
    Len(buffer) + (IF state.state = "Text" /\ Len(state.text) > 0 THEN 1 ELSE 0)

ended == res.op = "next" /\ res.kind \in {"done", "error"}

\* C30: draining terminates.  The nodes returned are never more than the code
\* units written plus one.  A call of next that returns a node has shifted at
\* least one code unit from the queue, or is the flush of the trailing text of
\* the closed instance with its queue empty, after which next answers done.
\* On the closed instance every call of next that returns a node leaves
\* strictly less to return nodes from, so that calling next again and again
\* ends with done or with an error.
DrainingTerminates ==
    /\ [](Len(out) <= Len(written) + 1)
    /\ [][(Advance /\ res'.kind = "node") =>
              \/ Len(buffer') < Len(buffer)
              \/ /\ closed
                 /\ buffer = <<>>
                 /\ res'.node.type = "text"
                 /\ next(state', buffer', closed', strict').kind = "done"]_vars
    /\ [][(closed /\ Advance /\ res'.kind = "node") => remaining' < remaining]_vars
    /\ (closed ~> ended)

\* C30 witness: `<hello>world</hello>asdf` was closed and drained: four nodes,
\* the last one the flush of the trailing text, then done.
DrainingWitness ==
    /\ written = DocReadme
    /\ closed
    /\ buffer = <<>>
    /\ res = Exhausted
    /\ Len(out) = 4
    /\ out[4] = TextNode(<<"a", "s", "d", "f">>)

\* C31: in ProcessingInstructionName only whitespace ends the target.  A
\* whitespace character goes to XMLDecl when the name is xml in any case and
\* to ProcessingInstruction with that name otherwise; every other character,
\* `?` and `>` included, is appended to the name without a node or an error;
\* the end of the closed stream in that state makes next throw 'unexpected
\* end of stream'.  So of `<?foo?>` and `<?xml?>` no node is ever returned,
\* no call of next throws anything but 'unexpected end of stream', and once
\* the whole text was written, closed and shifted the state is still
\* ProcessingInstructionName, the name is `foo?>` or `xml?>`, and next throws
\* 'unexpected end of stream'.
OnlyWhiteSpaceEndsTarget ==
    /\ state.state = "ProcessingInstructionName" =>
          /\ \A c \in Codes :
                IF isWhiteSpace(c)
                    THEN IF toLowerCase(state.name) = <<"x", "m", "l">>
                            THEN shiftsTo(c, [state |-> "XMLDecl",
                                              attributes |-> NoAttributes])
                            ELSE shiftsTo(c, [state |-> "ProcessingInstruction",
                                              name |-> state.name,
                                              text |-> <<>>, ending |-> FALSE])
                    ELSE shiftsTo(c, [state EXCEPT
                                          !.name = Append(@, fromCharCode(c))])
          /\ nextResult(next(state, <<>>, TRUE, strict)) = UnexpectedEnd
    /\ written \o todo \in {DocInstructionNoSpace, DocXmlDeclNoSpace} =>
          /\ out = <<>>
          /\ (res.op = "next" /\ res.kind = "error") => res = UnexpectedEnd
          /\ (todo = <<>> /\ closed /\ buffer = <<>>) =>
                /\ state = [state |-> "ProcessingInstructionName",
                            name |-> SubSeq(written, 3, 7)]
                /\ res.op = "next" => res = UnexpectedEnd

\* C31 witness: `<?foo?>` was written whole, closed and shifted: the name is
\* `foo?>`, no node was returned and next has thrown 'unexpected end of
\* stream'.
OnlyWhiteSpaceWitness ==
    /\ written = DocInstructionNoSpace
    /\ closed
    /\ buffer = <<>>
    /\ out = <<>>
    /\ state = [state |-> "ProcessingInstructionName",
                name |-> <<"f", "o", "o", "?", ">">>]
    /\ res = UnexpectedEnd

====
